---- MODULE Spec2Model ----
(***************************************************************************)
(* Model of claude-video-transcribe (src/src/main.rs): the VideoTranscriber *)
(* pipeline  submit -> poll -> collect -> upload -> generate  driven by the  *)
(* three commands index / ask / query, and the pure URL resolver            *)
(* extract_video_id.                                                        *)
(*                                                                         *)
(* Strings the code inspects (the URL) are sequences of one-character       *)
(* strings; strings the code only passes along (transcript, URI, answer)    *)
(* are TLA+ strings.  Rust Option<T> is a record [some |-> FALSE] or        *)
(* [some |-> TRUE, v |-> x].  The external services are nondeterministic:   *)
(* every request is answered by any response of a small response set.       *)
(* Console output (println!, stdout flush) is taken to succeed.             *)
(***************************************************************************)
EXTENDS Integers, Sequences, FiniteSets, TLC

VARIABLES
    pc,          \* position of the running command in the code
    ops,         \* number of commands started so far
    cmd,         \* Commands variant being run: "index", "ask", "query"
    url,         \* the --url argument
    question,    \* the --question argument (Option)
    run_id,      \* fetch_transcript local: the Apify run id (Option)
    attempts,    \* fetch_transcript local: the poll attempt counter
    transcript,  \* index_video local: the fetched transcript (Option)
    file_uri,    \* main / query_video local: the uploaded file URI (Option)
    result,      \* what the command returned
    sent,        \* observation: requests issued by this command, per kind
    lastReq,     \* observation: the last request issued
    lastResp,    \* observation: the last response received
    pendingSeen, \* observation: polls answered with a non-terminal status
    terminalSeen, \* observation: the first terminal status reported, and at which poll
    slept        \* observation: time units slept, per sleeping site

vars == <<pc, ops, cmd, url, question, run_id, attempts, transcript, file_uri,
          result, sent, lastReq, lastResp, pendingSeen, terminalSeen, slept>>

----------------------------------------------------------------------------
(* Bounds of the model *)

MaxFrags == 4
MaxOps == 2

(* Program constants *)

max_attempts == 60
PollSleepSecs == 5
UploadSleepSecs == 3
max_results == 1

----------------------------------------------------------------------------
(* Option<T> and Result<T> *)

None == [some |-> FALSE]
Some(x) == [some |-> TRUE, v |-> x]

Ok(x) == [status |-> "ok", val |-> x]
Err(msg, d) == [status |-> "err", err |-> msg, detail |-> d]
NoResult == [status |-> "none"]
NoDetail == [plain |-> TRUE]

(* slice::first().cloned() *)
First(s) == IF Len(s) = 0 THEN None ELSE Some(s[1])

----------------------------------------------------------------------------
(* String helpers: byte offsets are 0-based as in Rust *)

NotFound == -1

Min(S) == CHOOSE x \in S : \A y \in S : x <= y

(* &s[from..to] *)
Slice(s, from, to) == SubSeq(s, from + 1, to)

(* whether pat occurs in s at offset i *)
OccursAt(s, pat, i) ==
    /\ i >= 0
    /\ i + Len(pat) <= Len(s)
    /\ Slice(s, i, i + Len(pat)) = pat

(* str::find: offset of the first occurrence, or NotFound *)
Find(s, pat) ==
    LET hits == {i \in 0..Len(s) : OccursAt(s, pat, i)}
    IN  IF hits = {} THEN NotFound ELSE Min(hits)

(* str::contains *)
Contains(s, pat) == \E i \in 0..Len(s) : OccursAt(s, pat, i)

V_EQ == <<"v", "=">>
YOUTU_BE == <<"y", "o", "u", "t", "u", ".", "b", "e", "/">>
AMP == <<"&">>
QMARK == <<"?">>

----------------------------------------------------------------------------
(* VideoTranscriber::extract_video_id *)

ERR_NO_ID == "Could not extract video ID from URL"

(* variant: the path form is tried before the query form *)
extract_video_id_path_first(u) ==
    IF Contains(u, YOUTU_BE)
    THEN LET id_pos == Find(u, YOUTU_BE)
             id_start == id_pos + 9
             q == Find(Slice(u, id_start, Len(u)), QMARK)
             id_end == IF q # NotFound THEN id_start + q ELSE Len(u)
         IN  Ok(Slice(u, id_start, id_end))
    ELSE LET v_pos == Find(u, V_EQ) IN
         IF v_pos # NotFound
         THEN LET id_start == v_pos + 2
                  amp == Find(Slice(u, id_start, Len(u)), AMP)
                  id_end == IF amp # NotFound THEN id_start + amp ELSE Len(u)
              IN  Ok(Slice(u, id_start, id_end))
         ELSE Err(ERR_NO_ID, [url |-> u])

(* variant: the path form starts one byte early *)
extract_video_id_short_offset(u) ==
    LET v_pos == Find(u, V_EQ) IN
    IF v_pos # NotFound
    THEN LET id_start == v_pos + 2
             amp == Find(Slice(u, id_start, Len(u)), AMP)
             id_end == IF amp # NotFound THEN id_start + amp ELSE Len(u)
         IN  Ok(Slice(u, id_start, id_end))
    ELSE IF Contains(u, YOUTU_BE)
    THEN LET id_pos == Find(u, YOUTU_BE)
             id_start == id_pos + 8
             q == Find(Slice(u, id_start, Len(u)), QMARK)
             id_end == IF q # NotFound THEN id_start + q ELSE Len(u)
         IN  Ok(Slice(u, id_start, id_end))
    ELSE Err(ERR_NO_ID, [url |-> u])

(* variant: the path form is not handled *)
extract_video_id_query_only(u) ==
    LET v_pos == Find(u, V_EQ) IN
    IF v_pos # NotFound
    THEN LET id_start == v_pos + 2
             amp == Find(Slice(u, id_start, Len(u)), AMP)
             id_end == IF amp # NotFound THEN id_start + amp ELSE Len(u)
         IN  Ok(Slice(u, id_start, id_end))
    ELSE Err(ERR_NO_ID, [url |-> u])

extract_video_id(u) ==
    LET v_pos == Find(u, V_EQ) IN
    IF v_pos # NotFound
    THEN LET id_start == v_pos + 2
             amp == Find(Slice(u, id_start, Len(u)), AMP)
             id_end == IF amp # NotFound THEN id_start + amp ELSE Len(u)
         IN  Ok(Slice(u, id_start, id_end))
    ELSE IF Contains(u, YOUTU_BE)
    THEN LET id_pos == Find(u, YOUTU_BE)
             id_start == id_pos + 9
             q == Find(Slice(u, id_start, Len(u)), QMARK)
             id_end == IF q # NotFound THEN id_start + q ELSE Len(u)
         IN  Ok(Slice(u, id_start, id_end))
    ELSE Err(ERR_NO_ID, [url |-> u])

----------------------------------------------------------------------------
(* Inputs of the commands *)

URL_WATCH == \* https://x/watch?v=abc123&t=5
    <<"h", "t", "t", "p", "s", ":", "/", "/", "x", "/", "w", "a", "t", "c", "h", "?", "v", "=", "a", "b", "c", "1", "2", "3", "&", "t", "=", "5">>
URL_SHORT == \* https://youtu.be/abc123?t=5
    <<"h", "t", "t", "p", "s", ":", "/", "/", "y", "o", "u", "t", "u", ".", "b", "e", "/", "a", "b", "c", "1", "2", "3", "?", "t", "=", "5">>
URL_PLAIN == \* https://x/watch
    <<"h", "t", "t", "p", "s", ":", "/", "/", "x", "/", "w", "a", "t", "c", "h">>

Urls == {URL_WATCH, URL_SHORT, URL_PLAIN}
Questions == {"what is it", "why"}
CommandArgs ==
    {[cmd |-> "index", url |-> u, question |-> None] : u \in Urls}
    \cup {[cmd |-> c, url |-> u, question |-> Some(q)] :
            c \in {"ask", "query"}, u \in Urls, q \in Questions}

----------------------------------------------------------------------------
(* Responses of the external services.  A response is a transport failure  *)
(* or an HTTP status with a body; a body either fails to deserialize into   *)
(* the type the code asks for (json |-> FALSE) or carries the fields read.  *)

TransportError == [transport |-> FALSE]
Http(code, body) == [transport |-> TRUE, http |-> code, body |-> body]
Undecodable == [json |-> FALSE]
HttpCodes == {200, 500}

(* variant: every HTTP status counts as a success *)
is_success_always(code) == TRUE

(* StatusCode::is_success *)
is_success(code) == code >= 200 /\ code <= 299

RunIds == {"run1", "run2"}
SubmitBodies ==
    {Undecodable, [json |-> TRUE, id |-> None]}
    \cup {[json |-> TRUE, id |-> Some(r)] : r \in RunIds}
SubmitResponses ==
    {TransportError} \cup {Http(c, b) : c \in HttpCodes, b \in SubmitBodies}

TerminalFailures == {"FAILED", "ABORTED", "TIMED-OUT"}
NonTerminal == {"RUNNING", "READY"}
TerminalStatuses == {"SUCCEEDED"} \cup TerminalFailures
Statuses == TerminalStatuses \cup NonTerminal
PollBodies ==
    {Undecodable, [json |-> TRUE, status |-> None]}
    \cup {[json |-> TRUE, status |-> Some(s)] : s \in Statuses}
PollResponses ==
    {TransportError} \cup {Http(c, b) : c \in HttpCodes, b \in PollBodies}

(* ApifyDatasetItem *)
Item(text, channel, title) ==
    [text |-> text, channel_name |-> channel, title |-> title]
ITEM_TEXT == Item(Some("hello world"), None, None)
ITEM_FULL == Item(Some("hello world"), Some("C"), Some("T"))
ITEM_META == Item(None, Some("C"), Some("T"))
ITEM_BARE == Item(None, None, None)
ItemLists ==
    {<<>>, <<ITEM_TEXT>>, <<ITEM_FULL>>, <<ITEM_META>>, <<ITEM_BARE>>,
     <<ITEM_META, ITEM_TEXT>>, <<ITEM_BARE, ITEM_FULL>>,
     <<ITEM_TEXT, ITEM_META>>}
CollectBodies ==
    {Undecodable} \cup {[json |-> TRUE, items |-> l] : l \in ItemLists}
CollectResponses ==
    {TransportError} \cup {Http(c, b) : c \in HttpCodes, b \in CollectBodies}

(* GeminiFileResponse: file.name, file.uri, file.state, each possibly absent *)
FileNames == {None, Some("files/t1")}
FileUris == {None, Some("ref://1"), Some("ref://2")}
FileStates == {None, Some("ACTIVE"), Some("PROCESSING")}
UploadBodies ==
    {Undecodable}
    \cup {[json |-> TRUE, name |-> n, uri |-> u, state |-> s] :
            n \in FileNames, u \in FileUris, s \in FileStates}
UploadResponses ==
    {TransportError} \cup {Http(c, b) : c \in HttpCodes, b \in UploadBodies}

(* GeminiGenerateResponse *)
Part(text) == [text |-> text]
Candidate(parts) == [content |-> [parts |-> parts]]
CandidateLists ==
    {<<>>,
     <<Candidate(<<>>)>>,
     <<Candidate(<<Part(None)>>)>>,
     <<Candidate(<<Part(Some(""))>>)>>,
     <<Candidate(<<Part(Some("42"))>>)>>,
     <<Candidate(<<Part(None), Part(Some("43"))>>)>>,
     <<Candidate(<<Part(Some("42")), Part(Some("43"))>>)>>,
     <<Candidate(<<>>), Candidate(<<Part(Some("43"))>>)>>,
     <<Candidate(<<Part(None)>>), Candidate(<<Part(Some("43"))>>)>>,
     <<Candidate(<<Part(Some("42"))>>), Candidate(<<Part(Some("43"))>>)>>}
GenerateBodies ==
    {Undecodable, [json |-> TRUE, candidates |-> None]}
    \cup {[json |-> TRUE, candidates |-> Some(l)] : l \in CandidateLists}
GenerateResponses ==
    {TransportError} \cup {Http(c, b) : c \in HttpCodes, b \in GenerateBodies}

----------------------------------------------------------------------------
(* Error messages of the code *)

ERR_SUBMIT_SEND == "Failed to start Apify actor run"
ERR_SUBMIT_HTTP == "Apify run failed with status {}: {}"
ERR_SUBMIT_PARSE == "Failed to parse Apify run response"
ERR_SUBMIT_NO_ID == "Failed to get run ID from Apify response"
ERR_POLL_SEND == "Failed to check Apify run status"
ERR_POLL_PARSE == "Failed to parse Apify status response"
ERR_POLL_NO_STATUS == "Failed to get status from Apify response"
ERR_RUN_FAILED == "Apify run failed with status: {}"
ERR_LOCAL_TIMEOUT == "Apify run timed out after {} attempts"
ERR_COLLECT_SEND == "Failed to fetch Apify dataset"
ERR_COLLECT_PARSE == "Failed to parse Apify dataset items"
ERR_NO_TRANSCRIPT == "No transcript found for the video. The video might not have captions."
ERR_NO_TEXT == "No transcript text found in the video data"
ERR_UPLOAD_SEND == "Failed to upload file to Gemini"
ERR_UPLOAD_HTTP == "Gemini file upload failed with status {}: {}"
ERR_UPLOAD_PARSE == "Failed to parse Gemini file upload response"
ERR_GENERATE_SEND == "Failed to generate answer from Gemini"
ERR_GENERATE_HTTP == "Gemini generate failed with status {}: {}"
ERR_GENERATE_PARSE == "Failed to parse Gemini generate response"
ERR_NO_ANSWER == "No answer generated by Gemini"

----------------------------------------------------------------------------
(* The decisions the code takes on a response *)

(* variant: an exhausted attempt budget leaves the loop as if SUCCEEDED *)
poll_match_timeout_falls_through(status, att) ==
    IF status = "SUCCEEDED" THEN "break"
    ELSE IF status \in {"FAILED", "ABORTED", "TIMED-OUT"} THEN "bail_status"
    ELSE IF att >= max_attempts THEN "break"
    ELSE "continue"

(* variant: the attempt budget is tested before the status *)
poll_match_budget_first(status, att) ==
    IF att >= max_attempts THEN "bail_timeout"
    ELSE IF status = "SUCCEEDED" THEN "break"
    ELSE IF status \in {"FAILED", "ABORTED", "TIMED-OUT"} THEN "bail_status"
    ELSE "continue"

(* variant: ABORTED is not among the failure statuses *)
poll_match_aborted_pending(status, att) ==
    IF status = "SUCCEEDED" THEN "break"
    ELSE IF status \in {"FAILED", "TIMED-OUT"} THEN "bail_status"
    ELSE IF att >= max_attempts THEN "bail_timeout"
    ELSE "continue"

(* variant: the budget test is off by one *)
poll_match_off_by_one(status, att) ==
    IF status = "SUCCEEDED" THEN "break"
    ELSE IF status \in {"FAILED", "ABORTED", "TIMED-OUT"} THEN "bail_status"
    ELSE IF att > max_attempts THEN "bail_timeout"
    ELSE "continue"

(* fetch_transcript, the match on the polled status, with the attempt     *)
(* counter already incremented                                            *)
poll_match(status, att) ==
    IF status = "SUCCEEDED" THEN "break"
    ELSE IF status \in {"FAILED", "ABORTED", "TIMED-OUT"} THEN "bail_status"
    ELSE IF att >= max_attempts THEN "bail_timeout"
    ELSE "continue"

(* variant: a first item without text yields an empty transcript *)
first_transcript_or_empty(items) ==
    IF Len(items) = 0 THEN Err(ERR_NO_TRANSCRIPT, NoDetail)
    ELSE LET item == items[1] IN
         IF item.text.some THEN Ok(item.text.v) ELSE Ok("")

(* variant: the first item that has a text is used *)
first_transcript_any_item(items) ==
    LET with_text == {i \in 1..Len(items) : items[i].text.some} IN
    IF Len(items) = 0 THEN Err(ERR_NO_TRANSCRIPT, NoDetail)
    ELSE IF with_text = {} THEN Err(ERR_NO_TEXT, NoDetail)
    ELSE Ok(items[Min(with_text)].text.v)

(* fetch_transcript, from the parsed dataset items to the returned text *)
first_transcript(items) ==
    IF Len(items) = 0 THEN Err(ERR_NO_TRANSCRIPT, NoDetail)
    ELSE LET item == items[1] IN
         IF item.text.some THEN Ok(item.text.v) ELSE Err(ERR_NO_TEXT, NoDetail)

(* variant: a file that is not ACTIVE is rejected *)
parse_file_response_active_only(body) ==
    IF body.json /\ body.name.some /\ body.uri.some /\ body.state.some
       /\ body.state.v = "ACTIVE"
    THEN Some([name |-> body.name.v, uri |-> body.uri.v, state |-> body.state.v])
    ELSE None

(* upload_to_gemini, deserializing GeminiFileResponse: name, uri and     *)
(* state are required fields                                              *)
parse_file_response(body) ==
    IF body.json /\ body.name.some /\ body.uri.some /\ body.state.some
    THEN Some([name |-> body.name.v, uri |-> body.uri.v, state |-> body.state.v])
    ELSE None

(* variant: the wait is taken on ACTIVE instead *)
upload_wait_inverted(state) == IF state = "ACTIVE" THEN UploadSleepSecs ELSE 0

(* upload_to_gemini, the wait on a state other than ACTIVE *)
upload_wait(state) == IF state # "ACTIVE" THEN UploadSleepSecs ELSE 0

(* variant: the last part of the first candidate is used *)
extract_answer_last_part(candidates) ==
    LET candidate == IF candidates.some THEN First(candidates.v) ELSE None
        parts == IF candidate.some THEN candidate.v.content.parts ELSE <<>>
        part == IF Len(parts) = 0 THEN None ELSE Some(parts[Len(parts)])
        text == IF part.some THEN part.v.text ELSE None
    IN  IF text.some THEN Ok(text.v) ELSE Err(ERR_NO_ANSWER, NoDetail)

(* variant: a missing answer defaults to the empty string *)
extract_answer_or_default(candidates) ==
    LET candidate == IF candidates.some THEN First(candidates.v) ELSE None
        part == IF candidate.some THEN First(candidate.v.content.parts) ELSE None
        text == IF part.some THEN part.v.text ELSE None
    IN  IF text.some THEN Ok(text.v) ELSE Ok("")

(* ask_question, from the parsed GeminiGenerateResponse to the answer *)
extract_answer(candidates) ==
    LET candidate == IF candidates.some THEN First(candidates.v) ELSE None
        part == IF candidate.some THEN First(candidate.v.content.parts) ELSE None
        text == IF part.some THEN part.v.text ELSE None
    IN  IF text.some THEN Ok(text.v) ELSE Err(ERR_NO_ANSWER, NoDetail)

(* upload_to_gemini, the display name of the uploaded file *)
file_name(video_id) == <<"youtube_transcript_">> \o video_id \o <<".txt">>

(* ask_question, the instruction text of the generation request *)
PROMPT_HEAD == "Based on the content of this video transcript, please answer the following question: "
PROMPT_TAIL == "\n\nProvide a detailed and accurate answer based solely on the information in the transcript."
prompt(q) == <<PROMPT_HEAD, q, PROMPT_TAIL>>

----------------------------------------------------------------------------
(* Requests *)

NoRequest == [op |-> "none"]
NoResponse == [transport |-> FALSE, none |-> TRUE]
NoneSent == [submit |-> 0, poll |-> 0, collect |-> 0, upload |-> 0, generate |-> 0]
NoSleep == [poll |-> 0, upload |-> 0]
NoTerminal == [at |-> 0, status |-> "none"]

SubmitRequest(u) ==
    [op |-> "submit", start_urls |-> <<u>>, max_results |-> max_results]
PollRequest(id) == [op |-> "poll", run |-> id]
CollectRequest(id) == [op |-> "collect", run |-> id]
UploadRequest(name, text) ==
    [op |-> "upload", display_name |-> name, file |-> text]
GenerateRequest(uri, q) ==
    [op |-> "generate", role |-> "user",
     parts |-> <<[text |-> Some(prompt(q)), file_data |-> None],
                 [text |-> None,
                  file_data |-> Some([file_uri |-> uri, mime_type |-> "text/plain"])]>>]

Issue(kind, req, resp) ==
    /\ sent' = [sent EXCEPT ![kind] = @ + 1]
    /\ lastReq' = req
    /\ lastResp' = resp

(* the command returns r to the shell; the locals go out of scope *)
Return(r) ==
    /\ pc' = "done"
    /\ result' = r
    /\ run_id' = None
    /\ attempts' = 0
    /\ transcript' = None
    /\ file_uri' = None

----------------------------------------------------------------------------
(* The state machine *)

Init ==
    /\ pc = "idle"
    /\ ops = 0
    /\ cmd = "none"
    /\ url = <<>>
    /\ question = None
    /\ run_id = None
    /\ attempts = 0
    /\ transcript = None
    /\ file_uri = None
    /\ result = NoResult
    /\ sent = NoneSent
    /\ lastReq = NoRequest
    /\ lastResp = NoResponse
    /\ pendingSeen = 0
    /\ terminalSeen = NoTerminal
    /\ slept = NoSleep

(* variant: ask relies on an earlier index and goes straight to the question *)
first_stage_ask_skips_index(c) == IF c = "ask" THEN "generate" ELSE "submit"

(* main, index_video, query_video: every command starts with index_video,  *)
(* whose first call is fetch_transcript                                    *)
first_stage(c) ==
    CASE c = "index" -> "submit"
      [] c = "ask" -> "submit"
      [] c = "query" -> "submit"

(* variant: the ask arm stops after indexing *)
next_after_index_ask_stops(c) ==
    CASE c = "index" -> "done"
      [] c = "ask" -> "done"
      [] c = "query" -> "generate"

(* what the caller of index_video does with the returned URI: the Index   *)
(* arm of main is done, the Ask arm of main and query_video call           *)
(* ask_question                                                            *)
next_after_index(c) ==
    CASE c = "index" -> "done"
      [] c = "ask" -> "generate"
      [] c = "query" -> "generate"

(* variant: the first poll is not preceded by a sleep *)
sleep_before_poll_not_first(att) == IF att = 1 THEN 0 ELSE PollSleepSecs

(* fetch_transcript, the sleep at the top of every turn of the loop *)
sleep_before_poll(att) == PollSleepSecs

(* main: a fresh process runs one command *)
Start ==
    /\ pc \in {"idle", "done"}
    /\ ops < MaxOps
    /\ \E a \in CommandArgs :
        /\ cmd' = a.cmd
        /\ url' = a.url
        /\ question' = a.question
    /\ ops' = ops + 1
    /\ pc' = first_stage(cmd')
    /\ run_id' = None
    /\ attempts' = 0
    /\ transcript' = None
    /\ file_uri' = None
    /\ result' = NoResult
    /\ sent' = NoneSent
    /\ lastReq' = NoRequest
    /\ lastResp' = NoResponse
    /\ pendingSeen' = 0
    /\ terminalSeen' = NoTerminal
    /\ slept' = NoSleep

(* fetch_transcript, step 1: start the actor run *)
Submit ==
    /\ pc = "submit"
    /\ \E resp \in SubmitResponses :
        /\ Issue("submit", SubmitRequest(url), resp)
        /\ IF ~resp.transport THEN Return(Err(ERR_SUBMIT_SEND, NoDetail))
           ELSE IF ~is_success(resp.http)
           THEN Return(Err(ERR_SUBMIT_HTTP, [http |-> resp.http]))
           ELSE IF ~resp.body.json THEN Return(Err(ERR_SUBMIT_PARSE, NoDetail))
           ELSE IF ~resp.body.id.some THEN Return(Err(ERR_SUBMIT_NO_ID, NoDetail))
           ELSE /\ run_id' = resp.body.id
                /\ attempts' = 0
                /\ pc' = "poll"
                /\ UNCHANGED <<result, transcript, file_uri>>
    /\ UNCHANGED <<ops, cmd, url, question, pendingSeen, terminalSeen, slept>>

(* what a poll response reports, as the job service defines it *)
ReportedStatus(resp) ==
    IF resp.transport /\ resp.body.json THEN resp.body.status ELSE None

ObservePoll(resp) ==
    LET st == ReportedStatus(resp) IN
    /\ pendingSeen' = IF st.some /\ st.v \notin TerminalStatuses
                      THEN pendingSeen + 1 ELSE pendingSeen
    /\ terminalSeen' = IF st.some /\ st.v \in TerminalStatuses
                          /\ terminalSeen.at = 0
                       THEN [at |-> sent.poll + 1, status |-> st.v]
                       ELSE terminalSeen

(* fetch_transcript, step 2: one turn of the polling loop *)
Poll ==
    /\ pc = "poll"
    /\ \E resp \in PollResponses :
        LET att == attempts + 1 IN
        /\ slept' = [slept EXCEPT !.poll = @ + sleep_before_poll(att)]
        /\ Issue("poll", PollRequest(run_id.v), resp)
        /\ ObservePoll(resp)
        /\ IF ~resp.transport THEN Return(Err(ERR_POLL_SEND, NoDetail))
           ELSE IF ~resp.body.json THEN Return(Err(ERR_POLL_PARSE, NoDetail))
           ELSE IF ~resp.body.status.some
           THEN Return(Err(ERR_POLL_NO_STATUS, NoDetail))
           ELSE LET status == resp.body.status.v
                    arm == poll_match(status, att)
                IN  CASE arm = "break" ->
                            /\ pc' = "collect"
                            /\ attempts' = att
                            /\ UNCHANGED <<result, run_id, transcript, file_uri>>
                      [] arm = "bail_status" ->
                            Return(Err(ERR_RUN_FAILED, [status |-> status]))
                      [] arm = "bail_timeout" ->
                            Return(Err(ERR_LOCAL_TIMEOUT,
                                       [attempts |-> max_attempts]))
                      [] OTHER ->
                            /\ attempts' = att
                            /\ UNCHANGED <<pc, result, run_id, transcript,
                                           file_uri>>
    /\ UNCHANGED <<ops, cmd, url, question>>

(* fetch_transcript, step 3: get the dataset items and return the text *)
Collect ==
    /\ pc = "collect"
    /\ \E resp \in CollectResponses :
        /\ Issue("collect", CollectRequest(run_id.v), resp)
        /\ IF ~resp.transport THEN Return(Err(ERR_COLLECT_SEND, NoDetail))
           ELSE IF ~resp.body.json THEN Return(Err(ERR_COLLECT_PARSE, NoDetail))
           ELSE LET t == first_transcript(resp.body.items) IN
                IF t.status = "err" THEN Return(t)
                ELSE /\ transcript' = Some(t.val)
                     /\ pc' = "upload"
                     /\ run_id' = None
                     /\ attempts' = 0
                     /\ UNCHANGED <<result, file_uri>>
    /\ UNCHANGED <<ops, cmd, url, question, pendingSeen, terminalSeen, slept>>

(* upload_to_gemini with the resolved identifier video_id, then the return *)
(* of index_video to its caller in command c                               *)
UploadAs(c, video_id) ==
    /\ pc = "upload"
    /\ \/ /\ video_id.status = "err"
          /\ Return(video_id)
          /\ UNCHANGED <<sent, lastReq, lastResp, slept>>
       \/ /\ video_id.status = "ok"
          /\ \E resp \in UploadResponses :
              /\ Issue("upload",
                       UploadRequest(file_name(video_id.val), transcript.v),
                       resp)
              /\ IF ~resp.transport
                 THEN /\ Return(Err(ERR_UPLOAD_SEND, NoDetail))
                      /\ UNCHANGED slept
                 ELSE IF ~is_success(resp.http)
                 THEN /\ Return(Err(ERR_UPLOAD_HTTP, [http |-> resp.http]))
                      /\ UNCHANGED slept
                 ELSE LET file == parse_file_response(resp.body) IN
                      IF ~file.some
                      THEN /\ Return(Err(ERR_UPLOAD_PARSE, NoDetail))
                           /\ UNCHANGED slept
                      ELSE /\ slept' = [slept EXCEPT
                                          !.upload = @ + upload_wait(file.v.state)]
                           /\ IF next_after_index(c) = "done"
                              THEN Return(Ok(file.v.uri))
                              ELSE /\ file_uri' = Some(file.v.uri)
                                   /\ transcript' = None
                                   /\ pc' = next_after_index(c)
                                   /\ UNCHANGED <<result, run_id, attempts>>
    /\ UNCHANGED <<ops, cmd, url, question, pendingSeen, terminalSeen>>

(* variant: an unresolved identifier is replaced by a default *)
Upload_default_id ==
    UploadAs(cmd, IF extract_video_id(url).status = "ok"
                  THEN extract_video_id(url) ELSE Ok(<<"unknown">>))

Upload == UploadAs(cmd, extract_video_id(url))

(* ask_question, then the return of the command *)
AskQuestion ==
    /\ pc = "generate"
    /\ \E resp \in GenerateResponses :
        /\ Issue("generate", GenerateRequest(file_uri.v, question.v), resp)
        /\ IF ~resp.transport THEN Return(Err(ERR_GENERATE_SEND, NoDetail))
           ELSE IF ~is_success(resp.http)
           THEN Return(Err(ERR_GENERATE_HTTP, [http |-> resp.http]))
           ELSE IF ~resp.body.json THEN Return(Err(ERR_GENERATE_PARSE, NoDetail))
           ELSE Return(extract_answer(resp.body.candidates))
    /\ UNCHANGED <<ops, cmd, url, question, pendingSeen, terminalSeen, slept>>

Next == Start \/ Submit \/ Poll \/ Collect \/ Upload \/ AskQuestion

Spec == Init /\ [][Next]_vars

----------------------------------------------------------------------------
(* The resolver on its own: extract_video_id applied to every URL made of  *)
(* at most MaxFrags fragments, and to the example URLs.                     *)

Fragments == {V_EQ, YOUTU_BE, AMP, QMARK, <<"a">>, <<"b">>}

RECURSIVE Flatten(_)
Flatten(fs) == IF fs = <<>> THEN <<>> ELSE Head(fs) \o Flatten(Tail(fs))

FragmentUrls ==
    {Flatten(fs) : fs \in UNION {[1..n -> Fragments] : n \in 0..MaxFrags}}

URL_BARE_SHORT == \* https://youtu.be/
    <<"h", "t", "t", "p", "s", ":", "/", "/", "y", "o", "u", "t", "u", ".", "b", "e", "/">>
URL_BARE_QUERY == \* https://x/watch?v=
    <<"h", "t", "t", "p", "s", ":", "/", "/", "x", "/", "w", "a", "t", "c", "h", "?", "v", "=">>
URL_REV_PARAM == \* https://x/watch?rev=1&v=abc123
    <<"h", "t", "t", "p", "s", ":", "/", "/", "x", "/", "w", "a", "t", "c", "h", "?", "r", "e", "v", "=", "1", "&", "v", "=", "a", "b", "c", "1", "2", "3">>
URL_SHORT_WITH_V == \* https://youtu.be/abc123?v=1
    <<"h", "t", "t", "p", "s", ":", "/", "/", "y", "o", "u", "t", "u", ".", "b", "e", "/", "a", "b", "c", "1", "2", "3", "?", "v", "=", "1">>

ExampleUrls ==
    Urls \cup {URL_BARE_SHORT, URL_BARE_QUERY, URL_REV_PARAM, URL_SHORT_WITH_V}

ResolverUrls == FragmentUrls \cup ExampleUrls

ResolverInit ==
    /\ pc = "resolve"
    /\ url \in ResolverUrls
    /\ ops = 0
    /\ cmd = "none"
    /\ question = None
    /\ run_id = None
    /\ attempts = 0
    /\ transcript = None
    /\ file_uri = None
    /\ result = NoResult
    /\ sent = NoneSent
    /\ lastReq = NoRequest
    /\ lastResp = NoResponse
    /\ pendingSeen = 0
    /\ terminalSeen = NoTerminal
    /\ slept = NoSleep

Resolve ==
    /\ pc = "resolve"
    /\ result' = extract_video_id(url)
    /\ pc' = "resolved"
    /\ UNCHANGED <<ops, cmd, url, question, run_id, attempts, transcript,
                   file_uri, sent, lastReq, lastResp, pendingSeen,
                   terminalSeen, slept>>

ResolverNext == Resolve

ResolverSpec == ResolverInit /\ [][ResolverNext]_vars

----------------------------------------------------------------------------
(* Vocabulary of the resolver properties, stated without the code's helpers *)

(* the 0-based offsets at which pat occurs in s *)
Occurrences(s, pat) ==
    {i \in 0..(Len(s) - Len(pat)) :
        \A k \in 1..Len(pat) : s[i + k] = pat[k]}

(* the text of s from offset start up to the next stop character or the end *)
TextUntil(s, start, stop) ==
    LET stops == {j \in (start + 1)..Len(s) : s[j] = stop}
        last == IF stops = {} THEN Len(s) ELSE Min(stops) - 1
    IN  [k \in 1..(last - start) |-> s[start + k]]

Resolved == pc = "resolved"

(* C5: for every URL and every occurrence of v= in it, the resolver         *)
(* succeeds with the text between that v= and the next & or end-of-string.  *)
C5_QueryIdExact ==
    Resolved =>
        \A i \in Occurrences(url, V_EQ) :
            result = Ok(TextUntil(url, i + 2, "&"))

(* C6, as stated: for every URL and every occurrence of youtu.be/ in it,    *)
(* the resolver succeeds with the text between that youtu.be/ and the next  *)
(* ? or end-of-string.                                                      *)
C6_PathIdExact ==
    Resolved =>
        \A i \in Occurrences(url, YOUTU_BE) :
            result = Ok(TextUntil(url, i + 9, "?"))

(* C6, amended: for every URL that contains youtu.be/ and does not contain  *)
(* v= anywhere, the resolver succeeds with the text between the first       *)
(* youtu.be/ and the next ? or end-of-string.                               *)
C6_PathIdWhenNoQuery ==
    (Resolved /\ Occurrences(url, YOUTU_BE) # {} /\ Occurrences(url, V_EQ) = {})
        => result = Ok(TextUntil(url, Min(Occurrences(url, YOUTU_BE)) + 9, "?"))

C6_Witness ==
    /\ Resolved
    /\ url = URL_SHORT
    /\ result = Ok(<<"a", "b", "c", "1", "2", "3">>)

(* C7: the resolver fails, with the no-identifier error, exactly when the   *)
(* URL contains neither v= nor youtu.be/; otherwise it succeeds.            *)
C7_FailsIffNoPattern ==
    Resolved =>
        /\ result.status \in {"ok", "err"}
        /\ (result.status = "err") <=>
               (Occurrences(url, V_EQ) = {} /\ Occurrences(url, YOUTU_BE) = {})
        /\ result.status = "err" => result.err = ERR_NO_ID

C7_Witness ==
    /\ Resolved
    /\ url = URL_PLAIN
    /\ result.status = "err"
    /\ result.err = ERR_NO_ID

(* C8: a successful extraction never yields the empty identifier. *)
C8_IdNonEmpty ==
    (Resolved /\ result.status = "ok") => Len(result.val) > 0

----------------------------------------------------------------------------
(* Vocabulary of the pipeline properties *)

(* the last response was received with a decodable body *)
Decoded == lastResp.transport /\ lastResp.body.json

(* the last request was a status poll and its response reported status st *)
PollReported(st) ==
    lastReq.op = "poll" /\ Decoded /\ lastResp.body.status = Some(st)

NothingAfterPolling ==
    sent.collect = 0 /\ sent.upload = 0 /\ sent.generate = 0

(* C1: when the first k-1 polls report a non-terminal status and the k-th   *)
(* reports SUCCEEDED (k in 1..60), exactly k polls have been issued, the    *)
(* command is at the Collect step, and the next request is the Collect one. *)
C1_SucceededReachesCollect ==
    /\ [](PollReported("SUCCEEDED") =>
            /\ pc = "collect"
            /\ sent.poll = pendingSeen + 1
            /\ sent.poll \in 1..max_attempts
            /\ sent.collect = 0)
    /\ [][PollReported("SUCCEEDED") =>
            /\ lastReq'.op = "collect"
            /\ lastReq'.run = lastReq.run
            /\ sent'.poll = sent.poll
            /\ sent'.collect = 1]_vars

C1_Witness ==
    /\ lastReq.op = "collect"
    /\ sent.poll = max_attempts
    /\ pendingSeen = max_attempts - 1
    /\ terminalSeen = [at |-> max_attempts, status |-> "SUCCEEDED"]

(* C2: once a poll has reported a terminal status, or the attempt budget is *)
(* used up, the command issues no further poll; a reported FAILED, ABORTED  *)
(* or TIMED-OUT ends the command with the run-failed error carrying that    *)
(* status, and no collect, upload or generate request is issued.            *)
C2_TerminalStopsPolling ==
    /\ terminalSeen.at # 0 => sent.poll = terminalSeen.at
    /\ pendingSeen >= max_attempts => (sent.poll = max_attempts /\ pc = "done")
    /\ terminalSeen.status \in TerminalFailures =>
        /\ pc = "done"
        /\ result = Err(ERR_RUN_FAILED, [status |-> terminalSeen.status])
        /\ terminalSeen.at \in 1..max_attempts
        /\ NothingAfterPolling

C2_Witness ==
    /\ terminalSeen = [at |-> max_attempts, status |-> "ABORTED"]
    /\ pc = "done"
    /\ result = Err(ERR_RUN_FAILED, [status |-> "ABORTED"])

(* C3: polling that only ever sees non-terminal statuses ends after exactly *)
(* 60 polls with the local timeout error; that error is produced only then, *)
(* and it is not the error of a service-reported failure status.            *)
C3_LocalTimeoutAfterBudget ==
    /\ pc = "poll" => sent.poll < max_attempts
    /\ sent.poll <= max_attempts
    /\ pendingSeen = max_attempts =>
        /\ pc = "done"
        /\ result = Err(ERR_LOCAL_TIMEOUT, [attempts |-> max_attempts])
    /\ (result.status = "err" /\ result.err = ERR_LOCAL_TIMEOUT) =>
        /\ pendingSeen = max_attempts
        /\ sent.poll = max_attempts
        /\ terminalSeen = NoTerminal
        /\ NothingAfterPolling
    /\ terminalSeen.status \in TerminalFailures =>
        (result.status = "err" /\ result.err # ERR_LOCAL_TIMEOUT)

C3_Witness ==
    /\ pc = "done"
    /\ result = Err(ERR_LOCAL_TIMEOUT, [attempts |-> 60])
    /\ sent.poll = 60
    /\ slept.poll = 300

(* C4: the Collect request is issued only after SUCCEEDED; an empty item    *)
(* array ends the command with the no-transcript error, and a first item    *)
(* without text with the no-transcript-text error, whatever else the first  *)
(* or a later item carries; no upload follows and no transcript is kept.    *)
C4_CollectErrors ==
    /\ sent.collect > 0 => terminalSeen.status = "SUCCEEDED"
    /\ (lastReq.op = "collect" /\ Decoded) =>
        LET items == lastResp.body.items IN
        /\ Len(items) = 0 =>
            /\ pc = "done"
            /\ result = Err(ERR_NO_TRANSCRIPT, NoDetail)
            /\ transcript = None
            /\ sent.upload = 0
        /\ (Len(items) > 0 /\ ~items[1].text.some) =>
            /\ pc = "done"
            /\ result = Err(ERR_NO_TEXT, NoDetail)
            /\ transcript = None
            /\ sent.upload = 0

C4_Witness ==
    /\ lastReq.op = "collect"
    /\ Decoded
    /\ lastResp.body.items = <<ITEM_META, ITEM_TEXT>>
    /\ result = Err(ERR_NO_TEXT, NoDetail)

(* the last request was the generation request and it was answered with a  *)
(* success status and a decodable body                                     *)
GenerateAnswered ==
    lastReq.op = "generate" /\ Decoded /\ lastResp.http \in 200..299

(* the text of the first part of the first candidate, if there is one *)
FirstPartText(candidates) ==
    IF candidates.some /\ Len(candidates.v) > 0
       /\ Len(candidates.v[1].content.parts) > 0
    THEN candidates.v[1].content.parts[1].text
    ELSE None

(* C9: after a success-status generation response, absent or empty          *)
(* candidates, an empty parts list of the first candidate or a first part   *)
(* without text give the no-answer error; a command with a question         *)
(* succeeds only with exactly the text of the first part of the first       *)
(* candidate, never with a substituted empty string or a later text.        *)
C9_NoAnswerIsAnError ==
    /\ GenerateAnswered =>
        LET text == FirstPartText(lastResp.body.candidates) IN
        /\ pc = "done"
        /\ ~text.some => result = Err(ERR_NO_ANSWER, NoDetail)
        /\ text.some => result = Ok(text.v)
    /\ (cmd \in {"ask", "query"} /\ result.status = "ok") =>
        /\ GenerateAnswered
        /\ FirstPartText(lastResp.body.candidates).some

C9_Witness ==
    /\ GenerateAnswered
    /\ lastResp.body.candidates =
           Some(<<Candidate(<<Part(None), Part(Some("43"))>>)>>)
    /\ result = Err(ERR_NO_ANSWER, NoDetail)

(* the index command is done and its upload was answered with a success    *)
(* status and a decodable body                                             *)
IndexUploadAnswered ==
    /\ cmd = "index"
    /\ pc = "done"
    /\ lastReq.op = "upload"
    /\ Decoded
    /\ lastResp.http \in 200..299

(* C10, as stated: index of a URL with an identifier, whose job SUCCEEDED    *)
(* and whose first collected item has text, returns exactly the file.uri of *)
(* a success response of the ingestion service, whatever the file.state.    *)
C10_IndexReturnsUri ==
    (IndexUploadAnswered /\ lastResp.body.uri.some /\ lastResp.body.state.some)
        => result = Ok(lastResp.body.uri.v)

(* C10, amended: ... returns exactly the file.uri of a success response     *)
(* whose file object carries name, uri and state, whatever the state; the   *)
(* job may have SUCCEEDED on any poll from 1 to 60.                         *)
C10_IndexReturnsUriOfFullFile ==
    /\ (IndexUploadAnswered /\ lastResp.body.name.some
            /\ lastResp.body.uri.some /\ lastResp.body.state.some)
        => result = Ok(lastResp.body.uri.v)
    /\ (cmd = "index" /\ result.status = "ok") =>
        /\ IndexUploadAnswered
        /\ terminalSeen.status = "SUCCEEDED"
        /\ sent = [submit |-> 1, poll |-> terminalSeen.at, collect |-> 1,
                   upload |-> 1, generate |-> 0]

C10_Witness ==
    /\ IndexUploadAnswered
    /\ sent.poll = max_attempts
    /\ lastResp.body.state = Some("PROCESSING")
    /\ lastResp.body.uri = Some("ref://1")
    /\ result = Ok("ref://1")

----------------------------------------------------------------------------
(* Vocabulary of the composition properties *)

(* the file references and the instruction text of a generation request *)
FileRefs(req) ==
    {req.parts[i].file_data.v.file_uri :
        i \in {j \in 1..Len(req.parts) : req.parts[j].file_data.some}}
EmbedsVerbatim(req, q) ==
    \E i \in 1..Len(req.parts) :
        /\ req.parts[i].text.some
        /\ \E k \in 1..Len(req.parts[i].text.v) : req.parts[i].text.v[k] = q

(* the last request was the upload and it was answered with a success      *)
(* status and a file object carrying name, uri and state                   *)
UploadAnswered ==
    /\ lastReq.op = "upload"
    /\ Decoded
    /\ lastResp.http \in 200..299
    /\ lastResp.body.name.some
    /\ lastResp.body.uri.some
    /\ lastResp.body.state.some

(* C11: when the index part of query succeeds with the reference U and the  *)
(* generation service answers with success and a first-candidate first-part *)
(* text T, query returns exactly T; the generation request it sends         *)
(* references exactly U and embeds the question verbatim.                   *)
C11_QueryReturnsAnswer ==
    /\ []((cmd = "query" /\ pc = "generate") =>
            (UploadAnswered /\ file_uri = lastResp.body.uri))
    /\ []((cmd = "query" /\ GenerateAnswered
              /\ FirstPartText(lastResp.body.candidates).some) =>
            /\ pc = "done"
            /\ result = Ok(FirstPartText(lastResp.body.candidates).v)
            /\ EmbedsVerbatim(lastReq, question.v))
    /\ [][(cmd = "query" /\ pc = "generate") =>
            /\ lastReq'.op = "generate"
            /\ FileRefs(lastReq') = {lastResp.body.uri.v}
            /\ EmbedsVerbatim(lastReq', question.v)]_vars

C11_Witness ==
    /\ cmd = "query"
    /\ question = Some("what is it")
    /\ GenerateAnswered
    /\ FileRefs(lastReq) = {"ref://1"}
    /\ result = Ok("42")

(* the response to the last request makes its stage fail *)
StageFailed ==
    /\ lastReq.op # "none"
    /\ \/ ~lastResp.transport
       \/ /\ lastReq.op \in {"submit", "upload", "generate"}
          /\ lastResp.http \notin 200..299
       \/ ~lastResp.body.json
       \/ lastReq.op = "submit" /\ ~lastResp.body.id.some
       \/ /\ lastReq.op = "poll"
          /\ \/ ~lastResp.body.status.some
             \/ lastResp.body.status.v \in TerminalFailures
             \/ pendingSeen >= max_attempts
       \/ /\ lastReq.op = "collect"
          /\ \/ Len(lastResp.body.items) = 0
             \/ ~lastResp.body.items[1].text.some
       \/ /\ lastReq.op = "upload"
          /\ \/ ~lastResp.body.name.some
             \/ ~lastResp.body.uri.some
             \/ ~lastResp.body.state.some
       \/ /\ lastReq.op = "generate"
          /\ ~FirstPartText(lastResp.body.candidates).some

(* C12: a failed stage ends the command with an error at once: no further  *)
(* request follows, nothing but the status poll is ever sent twice, and a   *)
(* command succeeds only when every one of its stages succeeded.            *)
C12_ErrorsAreTerminal ==
    /\ [](/\ sent.submit <= 1 /\ sent.collect <= 1
          /\ sent.upload <= 1 /\ sent.generate <= 1
          /\ StageFailed => (pc = "done" /\ result.status = "err")
          /\ result.status = "err" => pc = "done"
          /\ result.status = "ok" =>
                /\ pc = "done"
                /\ ~StageFailed
                /\ terminalSeen.status = "SUCCEEDED"
                /\ sent = [submit |-> 1, poll |-> terminalSeen.at,
                           collect |-> 1, upload |-> 1,
                           generate |-> IF cmd = "index" THEN 0 ELSE 1])
    /\ [][result.status = "err" => (sent' = NoneSent /\ ops' = ops + 1)]_vars

C12_Witness ==
    /\ cmd = "query"
    /\ pc = "done"
    /\ result = Err(ERR_UPLOAD_HTTP, [http |-> 500])
    /\ sent = [submit |-> 1, poll |-> 2, collect |-> 1, upload |-> 1,
               generate |-> 0]

CollectAnswered ==
    /\ lastReq.op = "collect"
    /\ Decoded
    /\ Len(lastResp.body.items) > 0
    /\ lastResp.body.items[1].text.some

(* C15: the requests of one command occur in the order submit, polls,       *)
(* collect, upload, generate; each poll uses the run id the submit of the   *)
(* same command returned; collect follows a poll that reported SUCCEEDED,   *)
(* upload a collect whose first item has text, generate an upload answered  *)
(* with success and a URI; index never issues a generate request.           *)
C15_StageOrder ==
    /\ [](/\ sent.poll > 0 => sent.submit = 1
          /\ sent.collect > 0 =>
                /\ sent.poll >= 1
                /\ terminalSeen = [at |-> sent.poll, status |-> "SUCCEEDED"]
          /\ sent.upload > 0 => sent.collect = 1
          /\ sent.generate > 0 => (sent.upload = 1 /\ cmd # "index")
          /\ (lastReq.op = "submit" /\ pc = "poll") =>
                run_id = lastResp.body.id
          /\ lastReq.op = "submit" =>
                (sent.poll = 0 /\ NothingAfterPolling)
          /\ lastReq.op = "poll" => NothingAfterPolling
          /\ lastReq.op = "collect" =>
                (sent.upload = 0 /\ sent.generate = 0)
          /\ lastReq.op = "upload" => sent.generate = 0)
    /\ [][sent'.submit > sent.submit => sent = NoneSent]_vars
    /\ [][sent'.poll > sent.poll =>
            /\ lastReq.op \in {"submit", "poll"}
            /\ run_id.some
            /\ lastReq' = PollRequest(run_id.v)
            /\ lastReq.op = "poll" => lastReq'.run = lastReq.run]_vars
    /\ [][sent'.collect > sent.collect =>
            /\ PollReported("SUCCEEDED")
            /\ lastReq'.op = "collect"
            /\ lastReq'.run = lastReq.run]_vars
    /\ [][sent'.upload > sent.upload =>
            (CollectAnswered /\ lastReq'.op = "upload")]_vars
    /\ [][sent'.generate > sent.generate =>
            /\ UploadAnswered
            /\ cmd # "index"
            /\ lastReq'.op = "generate"]_vars

C15_Witness ==
    /\ cmd = "query"
    /\ lastReq.op = "generate"
    /\ sent = [submit |-> 1, poll |-> 3, collect |-> 1,
               upload |-> 1, generate |-> 1]

(* C16: a fetch issues at most 60 polls, each poll (the first included) is  *)
(* preceded by one 5-unit wait, so the polling step has waited 5 times the  *)
(* number of polls and never more than 300 units.                           *)
C16_PollingBounded ==
    /\ [](/\ sent.poll <= 60
          /\ slept.poll = 5 * sent.poll
          /\ slept.poll <= 300)
    /\ [][sent'.poll = sent.poll + 1 => slept'.poll = slept.poll + 5]_vars
    /\ [][slept'.poll > slept.poll => sent'.poll = sent.poll + 1]_vars

C16_Witness ==
    /\ pc = "collect"
    /\ sent.poll = 60
    /\ slept.poll = 300

(* C17: an upload answered with success and a state other than ACTIVE waits *)
(* 3 units once, sends nothing more to the ingestion service and returns    *)
(* the URI; with state ACTIVE it returns the URI without waiting; the       *)
(* outcome does not depend on the state.                                    *)
C17_UploadWaitsOnce ==
    /\ [](/\ sent.upload <= 1
          /\ slept.upload \in {0, 3}
          /\ UploadAnswered =>
                /\ slept.upload =
                      (IF lastResp.body.state.v # "ACTIVE" THEN 3 ELSE 0)
                /\ sent.upload = 1
                /\ cmd = "index" =>
                      (pc = "done" /\ result = Ok(lastResp.body.uri.v))
                /\ cmd # "index" =>
                      (pc = "generate" /\ file_uri = lastResp.body.uri))
    /\ [][(lastReq.op = "upload" /\ ops' = ops) =>
            /\ lastReq'.op \in {"upload", "generate"}
            /\ sent'.upload = sent.upload
            /\ slept' = slept]_vars

C17_Witness ==
    /\ UploadAnswered
    /\ lastResp.body.state = Some("PROCESSING")
    /\ slept.upload = 3
    /\ sent.upload = 1
    /\ cmd = "index"
    /\ result = Ok(lastResp.body.uri.v)

(* C18: when v= occurs anywhere in the URL the query form wins, whether or  *)
(* not youtu.be/ occurs and wherever it does, and the identifier is the     *)
(* text after the first v= up to the next & or the end; the path form is    *)
(* used only when v= occurs nowhere, and then from the first youtu.be/.     *)
C18_QueryFormWins ==
    Resolved =>
        LET vs == Occurrences(url, V_EQ)
            ps == Occurrences(url, YOUTU_BE)
        IN  /\ vs # {} =>
                 result = Ok(TextUntil(url, Min(vs) + 2, "&"))
            /\ (vs = {} /\ ps # {}) =>
                 result = Ok(TextUntil(url, Min(ps) + 9, "?"))

C18_Witness ==
    /\ Resolved
    /\ url = URL_SHORT_WITH_V
    /\ Min(Occurrences(url, YOUTU_BE)) < Min(Occurrences(url, V_EQ))
    /\ result = Ok(<<"1">>)

(* the URL contains neither pattern the resolver looks for *)
NoIdentifier ==
    Occurrences(url, V_EQ) = {} /\ Occurrences(url, YOUTU_BE) = {}

(* C19: the identifier is resolved only inside upload, after fetch: for a   *)
(* URL without identifier the command still submits, polls and collects; a  *)
(* failing fetch reports the fetch error, a succeeding fetch is followed by *)
(* the no-identifier error, and no upload or generate request is issued.    *)
C19_ResolveAfterFetch ==
    /\ [](NoIdentifier =>
            /\ sent.upload = 0
            /\ sent.generate = 0
            /\ result.status # "ok"
            /\ pc # "generate"
            /\ (pc = "done" /\ CollectAnswered) =>
                  result = Err(ERR_NO_ID, [url |-> url])
            /\ (pc = "done" /\ ~CollectAnswered) =>
                  /\ StageFailed
                  /\ result.status = "err"
                  /\ result.err # ERR_NO_ID)
    /\ []((result.status = "err" /\ result.err = ERR_NO_ID) =>
            /\ NoIdentifier
            /\ CollectAnswered
            /\ terminalSeen = [at |-> sent.poll, status |-> "SUCCEEDED"]
            /\ sent = [submit |-> 1, poll |-> terminalSeen.at, collect |-> 1,
                       upload |-> 0, generate |-> 0])
    /\ [][(NoIdentifier' /\ ops' # ops) => pc' = "submit"]_vars
    /\ [][(NoIdentifier /\ pc \in {"submit", "poll", "collect"}) =>
            lastReq'.op = pc]_vars
    /\ [][(NoIdentifier /\ pc = "upload") =>
            /\ result' = Err(ERR_NO_ID, [url |-> url])
            /\ sent' = sent
            /\ lastReq' = lastReq]_vars

C19_Witness ==
    /\ NoIdentifier
    /\ url = URL_PLAIN
    /\ cmd = "query"
    /\ pc = "done"
    /\ CollectAnswered
    /\ sent.collect = 1
    /\ sent.upload = 0
    /\ result = Err(ERR_NO_ID, [url |-> URL_PLAIN])

(* the last request was answered with an HTTP status outside 200..299 *)
NonSuccessAnswer ==
    /\ lastReq.op # "none"
    /\ lastResp.transport
    /\ lastResp.http \notin 200..299

(* C20: only submit, upload and generate check the HTTP status. A poll      *)
(* answered with a non-success status is handled by its body alone          *)
(* (SUCCEEDED goes on to collect, a non-terminal status keeps polling, a    *)
(* terminal failure aborts, a body without status string is a fatal error), *)
(* and so is a collect answered with a non-success status; a non-success    *)
(* answer to submit, upload or generate is that stage's HTTP error.         *)
C20_StatusCheckedByThree ==
    /\ (NonSuccessAnswer /\ lastReq.op = "poll") =>
          /\ ~lastResp.body.json =>
                (pc = "done" /\ result = Err(ERR_POLL_PARSE, NoDetail))
          /\ (lastResp.body.json /\ ~lastResp.body.status.some) =>
                (pc = "done" /\ result = Err(ERR_POLL_NO_STATUS, NoDetail))
          /\ PollReported("SUCCEEDED") =>
                (pc = "collect" /\ result = NoResult /\ sent.collect = 0)
          /\ \A st \in {"FAILED", "ABORTED", "TIMED-OUT"} :
                PollReported(st) =>
                    /\ pc = "done"
                    /\ result = Err(ERR_RUN_FAILED, [status |-> st])
          /\ (Decoded /\ lastResp.body.status.some
                /\ lastResp.body.status.v \notin
                      {"SUCCEEDED", "FAILED", "ABORTED", "TIMED-OUT"}) =>
                IF sent.poll < 60
                THEN pc = "poll" /\ result = NoResult
                ELSE /\ pc = "done"
                     /\ result = Err(ERR_LOCAL_TIMEOUT, [attempts |-> 60])
    /\ (NonSuccessAnswer /\ lastReq.op = "collect") =>
          /\ ~lastResp.body.json =>
                (pc = "done" /\ result = Err(ERR_COLLECT_PARSE, NoDetail))
          /\ (Decoded /\ Len(lastResp.body.items) = 0) =>
                (pc = "done" /\ result = Err(ERR_NO_TRANSCRIPT, NoDetail))
          /\ (Decoded /\ Len(lastResp.body.items) > 0
                /\ ~lastResp.body.items[1].text.some) =>
                (pc = "done" /\ result = Err(ERR_NO_TEXT, NoDetail))
          /\ CollectAnswered =>
                \/ /\ pc = "upload"
                   /\ transcript = lastResp.body.items[1].text
                   /\ result = NoResult
                \/ /\ pc = "done"
                   /\ NoIdentifier
                   /\ result = Err(ERR_NO_ID, [url |-> url])
    /\ (NonSuccessAnswer /\ lastReq.op \in {"submit", "upload", "generate"}) =>
          /\ pc = "done"
          /\ result.status = "err"
          /\ result.detail = [http |-> lastResp.http]
          /\ result.err = (CASE lastReq.op = "submit" -> ERR_SUBMIT_HTTP
                             [] lastReq.op = "upload" -> ERR_UPLOAD_HTTP
                             [] lastReq.op = "generate" -> ERR_GENERATE_HTTP)

C20_Witness ==
    /\ NonSuccessAnswer
    /\ lastResp.http = 500
    /\ lastReq.op = "collect"
    /\ CollectAnswered
    /\ pc = "upload"
    /\ sent.poll = 2
    /\ terminalSeen = [at |-> 2, status |-> "SUCCEEDED"]

====
